---- MODULE Spec2Model ----
(***************************************************************************)
(* Model of RAG_Samples/southerncross/src/pipeline.py: the PDF -> pages -> *)
(* sentences -> chunks -> embeddings -> CSV script.                        *)
(*                                                                         *)
(* Text is a sequence of one-character strings.  The script runs top to    *)
(* bottom at module level; each stage of the script is one action.         *)
(***************************************************************************)
EXTENDS Integers, Sequences, FiniteSets, TLC

\* ------------------------------------------------------------------ bounds
MaxPages == 2
MaxDocLen == 4
MaxSliceSize == 2
MaxRuns == 2
MaxListLen == 5
MaxSplitSize == 3
MaxChunkSentences == 2
MaxSentenceLen == 5
EmbeddingDim == 3

\* ------------------------------------------------------------- state
VARIABLES
    pc,                      \* position of the script
    pdf,                     \* the document: raw text of each page, in page order
    num_sentences_per_chunk, \* pipeline.py:115
    pages_and_texts,         \* pipeline.py:59
    pages_and_chunks,        \* pipeline.py:135
    text_chunk_embeddings,   \* pipeline.py:212
    dirExists,               \* the ../embeddings directory exists
    file,                    \* ../embeddings/kiwicare_embeddings.csv
    failedAt,                \* stage whose exception ended the run, or "none"
    executed,                \* stages entered by the current run, in order
    fileAtStart,             \* the file as the current run found it
    prevFile,                \* the file as the previous completed run left it
    runs,                    \* number of the current run
    input_list,              \* argument of a direct call of split_list
    slice_size,              \* argument of a direct call of split_list
    split_result,            \* what that call returned
    sentence_chunk,          \* one chunk of sentences given to the join expression
    joined,                  \* what the join expression produced
    called                   \* the direct call has been made

vars == <<pc, pdf, num_sentences_per_chunk, pages_and_texts, pages_and_chunks,
          text_chunk_embeddings, dirExists, file, failedAt, executed,
          fileAtStart, prevFile, runs, input_list, slice_size, split_result,
          sentence_chunk, joined, called>>

pipelineVars == <<pc, pdf, num_sentences_per_chunk, pages_and_texts,
                  pages_and_chunks, text_chunk_embeddings, dirExists, file,
                  failedAt, executed, fileAtStart, prevFile, runs>>

callVars == <<input_list, slice_size, split_result, sentence_chunk, joined, called>>

\* ------------------------------------------------------------- text helpers
Min(a, b) == IF a < b THEN a ELSE b

SeqsUpTo(S, n) == UNION {[1..k -> S] : k \in 0..n}

Whitespace == {" ", "\n"}

\* str.replace("\n", " ")
ReplaceNewlines(text) == [i \in 1..Len(text) |-> IF text[i] = "\n" THEN " " ELSE text[i]]

RECURSIVE LStrip(_)
LStrip(text) ==
    IF text = <<>> THEN <<>>
    ELSE IF Head(text) \in Whitespace THEN LStrip(Tail(text)) ELSE text

RECURSIVE RStrip(_)
RStrip(text) ==
    IF text = <<>> THEN <<>>
    ELSE IF text[Len(text)] \in Whitespace THEN RStrip(SubSeq(text, 1, Len(text) - 1))
    ELSE text

\* str.strip()
Strip(text) == RStrip(LStrip(text))

\* str.replace("  ", " "): one left-to-right pass over non-overlapping matches
RECURSIVE ReplaceDoubleSpace(_)
ReplaceDoubleSpace(text) ==
    IF Len(text) < 2 THEN text
    ELSE IF text[1] = " " /\ text[2] = " "
         THEN <<" ">> \o ReplaceDoubleSpace(SubSeq(text, 3, Len(text)))
         ELSE <<text[1]>> \o ReplaceDoubleSpace(Tail(text))

\* len(text.split(" ")): one more than the number of spaces
RECURSIVE CountSpaces(_)
CountSpaces(text) ==
    IF text = <<>> THEN 0
    ELSE (IF Head(text) = " " THEN 1 ELSE 0) + CountSpaces(Tail(text))

SplitSpaceLen(text) == CountSpaces(text) + 1

\* len(text.split(". ")): one more than the number of non-overlapping ". "
RECURSIVE CountDotSpace(_)
CountDotSpace(text) ==
    IF Len(text) < 2 THEN 0
    ELSE IF text[1] = "." /\ text[2] = " "
         THEN 1 + CountDotSpace(SubSeq(text, 3, Len(text)))
         ELSE CountDotSpace(Tail(text))

SplitDotSpaceLen(text) == CountDotSpace(text) + 1

\* len(text) / 4, kept as the exact quotient <<numerator, denominator>>
TokenCount(text) == <<Len(text), 4>>

\* "".join(list_of_strings)
RECURSIVE JoinAll(_)
JoinAll(strings) ==
    IF strings = <<>> THEN <<>> ELSE Head(strings) \o JoinAll(Tail(strings))

\* ------------------------------------------------------------- stage 1
text_formatter(text) == Strip(ReplaceNewlines(text))

PageRecord(page_number, raw) ==
    LET text == text_formatter(raw) IN
    [page_number |-> page_number,
     page_char_count |-> Len(text),
     page_word_count |-> SplitSpaceLen(text),
     page_sentence_count_raw |-> SplitDotSpaceLen(text),
     page_token_count |-> TokenCount(text),
     text |-> text]

\* enumerate(doc) numbers the pages from 0
open_and_read_pdf(doc) == [i \in 1..Len(doc) |-> PageRecord(i - 1, doc[i])]

\* ------------------------------------------------------------- chunker
\* range(start, stop, step) for step > 0
RECURSIVE Range(_, _, _)
Range(start, stop, step) ==
    IF start >= stop THEN <<>> ELSE <<start>> \o Range(start + step, stop, step)

\* list[lo:hi] for 0 <= lo <= hi
Slice(list, lo, hi) == SubSeq(list, lo + 1, Min(hi, Len(list)))

SplitDropsTail(list, size) ==
    LET starts == Range(0, Len(list) - size + 1, size) IN
    [k \in 1..Len(starts) |-> Slice(list, starts[k], starts[k] + size)]

SplitOverlaps(list, size) ==
    LET starts == Range(0, Len(list), size) IN
    [k \in 1..Len(starts) |-> Slice(list, starts[k], starts[k] + size + 1)]

SplitEmptyTail(list, size) ==
    LET starts == Range(0, Len(list) + 1, size) IN
    [k \in 1..Len(starts) |-> Slice(list, starts[k], starts[k] + size)]

split_list(list, size) ==
    LET starts == Range(0, Len(list), size) IN
    [k \in 1..Len(starts) |-> Slice(list, starts[k], starts[k] + size)]

\* ------------------------------------------------------------- stage 2
\* The sentencizer (pipeline.py:90-92).  A token is a "." on its own, a
\* maximal run of other non-space characters, or the spaces of a run
\* after its first (the first space belongs to the token before it).
IsTokenStart(text, i) ==
    \/ text[i] = "."
    \/ /\ text[i] \notin {" ", "."}
       /\ (i = 1 \/ text[i - 1] \in {" ", "."})
    \/ /\ text[i] = " "
       /\ i >= 2
       /\ text[i - 1] = " "
       /\ (i = 2 \/ text[i - 2] # " ")

\* A sentence starts at the first token that is not punctuation after a "."
RECURSIVE SentStarts(_, _, _)
SentStarts(text, i, seen_period) ==
    IF i > Len(text) THEN <<>>
    ELSE IF ~IsTokenStart(text, i) THEN SentStarts(text, i + 1, seen_period)
    ELSE IF text[i] = "." THEN SentStarts(text, i + 1, TRUE)
    ELSE IF seen_period THEN <<i>> \o SentStarts(text, i + 1, FALSE)
    ELSE SentStarts(text, i + 1, seen_period)

\* str(span): the span's text without the trailing space of its last token
SpanText(text, first, last) ==
    IF text[last] = " " THEN SubSeq(text, first, last - 1) ELSE SubSeq(text, first, last)

\* [str(sentence) for sentence in nlp(text).sents]
Sentences(text) ==
    IF text = <<>> THEN <<>>
    ELSE LET starts == <<1>> \o SentStarts(text, 1, FALSE) IN
         [k \in 1..Len(starts) |->
            SpanText(text, starts[k],
                     IF k < Len(starts) THEN starts[k + 1] - 1 ELSE Len(text))]

SegmentPageRewritesText(item) ==
    LET sents == Sentences(item.text) IN
    [sentences |-> sents, page_sentence_count_spacy |-> Len(sents),
     text |-> JoinAll(sents)] @@ item

\* body of the loop at pipeline.py:93-98
SegmentPage(item) ==
    LET sents == Sentences(item.text) IN
    [sentences |-> sents, page_sentence_count_spacy |-> Len(sents)] @@ item

\* ------------------------------------------------------------- stage 2b
\* body of the loop at pipeline.py:123-125
ChunkPage(item, size) ==
    LET chunks == split_list(item.sentences, size) IN
    [sentence_chunks |-> chunks, num_chunks |-> Len(chunks)] @@ item

\* "".join(sentence_chunk).replace("  ", " ").strip()
joined_sentence_chunk(chunk) == Strip(ReplaceDoubleSpace(JoinAll(chunk)))

\* chunk_dict of pipeline.py:138-149
ChunkRecord(item, chunk) ==
    LET text == joined_sentence_chunk(chunk) IN
    [page_number |-> item.page_number,
     sentence_chunk |-> text,
     chunk_char_count |-> Len(text),
     chunk_word_count |-> SplitSpaceLen(text),
     chunk_token_count |-> TokenCount(text)]

\* every sentence of every page, in document order
RECURSIVE AllSentences(_)
AllSentences(pages) ==
    IF pages = <<>> THEN <<>>
    ELSE Head(pages).sentences \o AllSentences(Tail(pages))

BuildChunksAcrossPages(pages) ==
    IF pages = <<>> THEN <<>>
    ELSE LET chunks == split_list(AllSentences(pages), num_sentences_per_chunk) IN
         [k \in 1..Len(chunks) |-> ChunkRecord(pages[1], chunks[k])]

\* the nested loops at pipeline.py:135-151
RECURSIVE BuildChunks(_)
BuildChunks(pages) ==
    IF pages = <<>> THEN <<>>
    ELSE LET item == Head(pages) IN
         [k \in 1..Len(item.sentence_chunks) |-> ChunkRecord(item, item.sentence_chunks[k])]
         \o BuildChunks(Tail(pages))

\* ------------------------------------------------------------- stage 3
CharCode(c) == CASE c = "a" -> 1 [] c = "." -> 2 [] c = " " -> 3 [] OTHER -> 4

RECURSIVE Weighted(_, _)
Weighted(text, i) ==
    IF text = <<>> THEN 0
    ELSE CharCode(Head(text)) + (i + 4) * Weighted(Tail(text), i)

\* embedding_model.encode(text): a deterministic vector of the model's
\* dimension, different for different texts
Encode(text) == [i \in 1..EmbeddingDim |-> Weighted(text, i)]

EmbedFirstText(chunks) ==
    [i \in 1..Len(chunks) |->
        [embedding |-> Encode(chunks[1].sentence_chunk)] @@ chunks[i]]

EmbedSkipsLast(chunks) ==
    [i \in 1..Len(chunks) |->
        IF i < Len(chunks)
        THEN [embedding |-> Encode(chunks[i].sentence_chunk)] @@ chunks[i]
        ELSE chunks[i]]

EmbedTruncatesText(chunks) ==
    [i \in 1..Len(chunks) |->
        [embedding |-> Encode(chunks[i].sentence_chunk),
         sentence_chunk |-> SubSeq(chunks[i].sentence_chunk, 1, 1)] @@ chunks[i]]

\* the loop at pipeline.py:203-204
EmbedChunks(chunks) ==
    [i \in 1..Len(chunks) |->
        [embedding |-> Encode(chunks[i].sentence_chunk)] @@ chunks[i]]

\* the loop at pipeline.py:203-204 stopped by an exception after k items
EmbedFirst(chunks, k) ==
    [i \in 1..Len(chunks) |->
        IF i <= k THEN [embedding |-> Encode(chunks[i].sentence_chunk)] @@ chunks[i]
        ELSE chunks[i]]

batch_size == 32

\* embedding_model.encode(list, batch_size=...): the texts are encoded a
\* batch at a time and the vectors come back in the order of the texts
EncodeBatch(texts, size) ==
    LET starts == Range(0, Len(texts), size)
        batch(k) == Slice(texts, starts[k], starts[k] + size)
        RECURSIVE upto(_)
        upto(k) == IF k = 0 THEN <<>>
                   ELSE upto(k - 1) \o [j \in 1..Len(batch(k)) |-> Encode(batch(k)[j])]
    IN upto(Len(starts))

\* [item["sentence_chunk"] for item in pages_and_chunks]
TextChunks(chunks) == [i \in 1..Len(chunks) |-> chunks[i].sentence_chunk]

\* ------------------------------------------------------------- stage 4
Columns == <<"page_number", "sentence_chunk", "chunk_char_count",
             "chunk_word_count", "chunk_token_count", "embedding">>

\* one CSV line: the record's values in column order, empty where absent
Row(record) ==
    [c \in 1..Len(Columns) |->
        IF Columns[c] \in DOMAIN record THEN record[Columns[c]] ELSE <<>>]

NoFile == [exists |-> FALSE, header |-> <<>>, rows |-> <<>>]

\* what an earlier run on some other document left behind
StaleFile ==
    [exists |-> TRUE, header |-> Columns,
     rows |-> << <<7, <<"a">>, 1, 1, <<1, 4>>, [i \in 1..EmbeddingDim |-> 0]>> >>]

to_csv_appending(old, records) ==
    [exists |-> TRUE, header |-> Columns,
     rows |-> old.rows \o [i \in 1..Len(records) |-> Row(records[i])]]

\* DataFrame(records).to_csv(path, index=False): the file is opened for
\* writing, which discards what it held
to_csv(old, records) ==
    [exists |-> TRUE, header |-> Columns,
     rows |-> [i \in 1..Len(records) |-> Row(records[i])]]

\* to_csv stopped by an exception after k rows
to_csv_partial(records, k) ==
    [exists |-> TRUE, header |-> Columns,
     rows |-> [i \in 1..k |-> Row(records[i])]]

\* ------------------------------------------------------------- the script
\* characters of the raw page text; a newline stands for any white space,
\* since text_formatter turns it into a space before anything reads it
Alphabet == {"a", ".", "\n"}

\* the pages cut out of text at the positions cuts[1] <= ... <= cuts[k - 1]
Pieces(text, cuts, k) ==
    [i \in 1..k |->
        SubSeq(text,
               (IF i = 1 THEN 0 ELSE cuts[i - 1]) + 1,
               IF i = k THEN Len(text) ELSE cuts[i])]

\* documents of 1..MaxPages pages holding at most MaxDocLen characters in all
PdfDocs ==
    UNION {
        UNION {
            {Pieces(text, cuts, k) :
                cuts \in {c \in [1..(k - 1) -> 0..Len(text)] :
                            \A i \in 1..(k - 2) : c[i] <= c[i + 1]}}
            : k \in 1..MaxPages}
        : text \in SeqsUpTo(Alphabet, MaxDocLen)}

Stages == <<"load", "segment", "chunk", "join", "embed", "batch", "save", "reload">>

StageAfter(stage) ==
    CASE stage = "load" -> "segment"
      [] stage = "segment" -> "chunk"
      [] stage = "chunk" -> "join"
      [] stage = "join" -> "embed"
      [] stage = "embed" -> "batch"
      [] stage = "batch" -> "save"
      [] stage = "save" -> "reload"
      [] OTHER -> "done"

Enter(stage) == executed' = Append(executed, stage)

Proceed(stage) == pc' = StageAfter(stage) /\ failedAt' = failedAt

RaiseSwallowed(stage) == pc' = StageAfter(stage) /\ failedAt' = stage

\* an exception nothing catches: the interpreter prints it and exits
Raise(stage) == pc' = "aborted" /\ failedAt' = stage

NoCall ==
    /\ input_list = <<>>
    /\ slice_size = 1
    /\ split_result = <<>>
    /\ sentence_chunk = <<>>
    /\ joined = <<>>
    /\ called = FALSE

Init ==
    /\ pc = "load"
    /\ pdf \in PdfDocs
    /\ num_sentences_per_chunk \in 1..MaxSliceSize
    /\ pages_and_texts = <<>>
    /\ pages_and_chunks = <<>>
    /\ text_chunk_embeddings = <<>>
    /\ \/ dirExists = FALSE /\ file = NoFile
       \/ dirExists = TRUE /\ file = StaleFile
    /\ failedAt = "none"
    /\ executed = <<>>
    /\ fileAtStart = file
    /\ prevFile = NoFile
    /\ runs = 1
    /\ NoCall

\* pipeline.py:57-69
Load ==
    /\ pc = "load"
    /\ Enter("load")
    /\ pages_and_texts' = open_and_read_pdf(pdf)
    /\ Proceed("load")
    /\ UNCHANGED <<pdf, num_sentences_per_chunk, pages_and_chunks,
                   text_chunk_embeddings, dirExists, file, fileAtStart,
                   prevFile, runs, callVars>>

\* fitz.open or page.get_text raises
LoadFails ==
    /\ pc = "load"
    /\ Enter("load")
    /\ Raise("load")
    /\ UNCHANGED <<pdf, num_sentences_per_chunk, pages_and_texts, pages_and_chunks,
                   text_chunk_embeddings, dirExists, file, fileAtStart,
                   prevFile, runs, callVars>>

\* pipeline.py:85-106
Segment ==
    /\ pc = "segment"
    /\ Enter("segment")
    /\ pages_and_texts' = [i \in 1..Len(pages_and_texts) |-> SegmentPage(pages_and_texts[i])]
    /\ Proceed("segment")
    /\ UNCHANGED <<pdf, num_sentences_per_chunk, pages_and_chunks,
                   text_chunk_embeddings, dirExists, file, fileAtStart,
                   prevFile, runs, callVars>>

\* spacy.load or the pipeline call raises
SegmentFails ==
    /\ pc = "segment"
    /\ Enter("segment")
    /\ Raise("segment")
    /\ UNCHANGED <<pdf, num_sentences_per_chunk, pages_and_texts, pages_and_chunks,
                   text_chunk_embeddings, dirExists, file, fileAtStart,
                   prevFile, runs, callVars>>

\* pipeline.py:115-132
Chunk ==
    /\ pc = "chunk"
    /\ Enter("chunk")
    /\ pages_and_texts' = [i \in 1..Len(pages_and_texts) |->
                              ChunkPage(pages_and_texts[i], num_sentences_per_chunk)]
    /\ Proceed("chunk")
    /\ UNCHANGED <<pdf, num_sentences_per_chunk, pages_and_chunks,
                   text_chunk_embeddings, dirExists, file, fileAtStart,
                   prevFile, runs, callVars>>

\* pipeline.py:135-158; random.sample(pages_and_chunks, k=1) at line 154
\* raises ValueError when there is no chunk at all
Join ==
    /\ pc = "join"
    /\ Enter("join")
    /\ pages_and_chunks' = BuildChunks(pages_and_texts)
    /\ IF pages_and_chunks' = <<>> THEN Raise("join") ELSE Proceed("join")
    /\ UNCHANGED <<pdf, num_sentences_per_chunk, pages_and_texts,
                   text_chunk_embeddings, dirExists, file, fileAtStart,
                   prevFile, runs, callVars>>

\* pipeline.py:176-204
Embed ==
    /\ pc = "embed"
    /\ Enter("embed")
    /\ pages_and_chunks' = EmbedChunks(pages_and_chunks)
    /\ Proceed("embed")
    /\ UNCHANGED <<pdf, num_sentences_per_chunk, pages_and_texts,
                   text_chunk_embeddings, dirExists, file, fileAtStart,
                   prevFile, runs, callVars>>

\* loading the model raises (k = 0) or an encode call of the loop raises
EmbedFails ==
    /\ pc = "embed"
    /\ Enter("embed")
    /\ \E k \in 0..(Len(pages_and_chunks) - 1) :
          pages_and_chunks' = EmbedFirst(pages_and_chunks, k)
    /\ Raise("embed")
    /\ UNCHANGED <<pdf, num_sentences_per_chunk, pages_and_texts,
                   text_chunk_embeddings, dirExists, file, fileAtStart,
                   prevFile, runs, callVars>>

\* pipeline.py:207-216
Batch ==
    /\ pc = "batch"
    /\ Enter("batch")
    /\ text_chunk_embeddings' = EncodeBatch(TextChunks(pages_and_chunks), batch_size)
    /\ Proceed("batch")
    /\ UNCHANGED <<pdf, num_sentences_per_chunk, pages_and_texts, pages_and_chunks,
                   dirExists, file, fileAtStart, prevFile, runs, callVars>>

\* the batched encode call raises
BatchFails ==
    /\ pc = "batch"
    /\ Enter("batch")
    /\ Raise("batch")
    /\ UNCHANGED <<pdf, num_sentences_per_chunk, pages_and_texts, pages_and_chunks,
                   text_chunk_embeddings, dirExists, file, fileAtStart,
                   prevFile, runs, callVars>>

\* pipeline.py:219-228: os.makedirs(exist_ok=True), then to_csv
Save ==
    /\ pc = "save"
    /\ Enter("save")
    /\ dirExists' = TRUE
    /\ file' = to_csv(file, pages_and_chunks)
    /\ Proceed("save")
    /\ UNCHANGED <<pdf, num_sentences_per_chunk, pages_and_texts, pages_and_chunks,
                   text_chunk_embeddings, fileAtStart, prevFile, runs, callVars>>

\* os.makedirs raises; or to_csv raises before opening the file; or to_csv
\* raises after it has written k rows
SaveFails ==
    /\ pc = "save"
    /\ Enter("save")
    /\ \/ UNCHANGED <<dirExists, file>>
       \/ dirExists' = TRUE /\ file' = file
       \/ /\ dirExists' = TRUE
          /\ \E k \in 0..(Len(pages_and_chunks) - 1) :
                file' = to_csv_partial(pages_and_chunks, k)
    /\ Raise("save")
    /\ UNCHANGED <<pdf, num_sentences_per_chunk, pages_and_texts, pages_and_chunks,
                   text_chunk_embeddings, fileAtStart, prevFile, runs, callVars>>

\* pipeline.py:231-232
Reload ==
    /\ pc = "reload"
    /\ Enter("reload")
    /\ Proceed("reload")
    /\ UNCHANGED <<pdf, num_sentences_per_chunk, pages_and_texts, pages_and_chunks,
                   text_chunk_embeddings, dirExists, file, fileAtStart,
                   prevFile, runs, callVars>>

\* pd.read_csv raises
ReloadFails ==
    /\ pc = "reload"
    /\ Enter("reload")
    /\ Raise("reload")
    /\ UNCHANGED <<pdf, num_sentences_per_chunk, pages_and_texts, pages_and_chunks,
                   text_chunk_embeddings, dirExists, file, fileAtStart,
                   prevFile, runs, callVars>>

\* the script is run again on the same document with the same settings:
\* a new process, so nothing but the file system is carried over
Rerun ==
    /\ pc = "done"
    /\ runs < MaxRuns
    /\ pc' = "load"
    /\ runs' = runs + 1
    /\ pages_and_texts' = <<>>
    /\ pages_and_chunks' = <<>>
    /\ text_chunk_embeddings' = <<>>
    /\ failedAt' = "none"
    /\ executed' = <<>>
    /\ fileAtStart' = file
    /\ prevFile' = file
    /\ UNCHANGED <<pdf, num_sentences_per_chunk, dirExists, file, callVars>>

Next ==
    \/ Load \/ LoadFails
    \/ Segment \/ SegmentFails
    \/ Chunk
    \/ Join
    \/ Embed \/ EmbedFails
    \/ Batch \/ BatchFails
    \/ Save \/ SaveFails
    \/ Reload \/ ReloadFails
    \/ Rerun

Spec == Init /\ [][Next]_vars

\* ------------------------------------------------------------- direct calls
NoRun ==
    /\ pdf = <<>>
    /\ num_sentences_per_chunk = 1
    /\ pages_and_texts = <<>>
    /\ pages_and_chunks = <<>>
    /\ text_chunk_embeddings = <<>>
    /\ dirExists = FALSE
    /\ file = NoFile
    /\ failedAt = "none"
    /\ executed = <<>>
    /\ fileAtStart = NoFile
    /\ prevFile = NoFile
    /\ runs = 0

SplitItems == {<<"a">>, <<".">>}

InitSplit ==
    /\ pc = "call_split"
    /\ NoRun
    /\ input_list \in SeqsUpTo(SplitItems, MaxListLen)
    /\ slice_size \in 1..MaxSplitSize
    /\ split_result = <<>>
    /\ sentence_chunk = <<>>
    /\ joined = <<>>
    /\ called = FALSE

CallSplitList ==
    /\ pc = "call_split"
    /\ ~called
    /\ split_result' = split_list(input_list, slice_size)
    /\ called' = TRUE
    /\ UNCHANGED <<pipelineVars, input_list, slice_size, sentence_chunk, joined>>

NextSplit == CallSplitList

SpecSplit == InitSplit /\ [][NextSplit]_vars

\* sentences as the segmenter returns them: not empty, no trailing space
JoinSentences ==
    {s \in SeqsUpTo({"a", " "}, MaxSentenceLen) : s # <<>> /\ s[Len(s)] # " "}

InitJoin ==
    /\ pc = "call_join"
    /\ NoRun
    /\ input_list = <<>>
    /\ slice_size = 1
    /\ split_result = <<>>
    /\ sentence_chunk \in {c \in SeqsUpTo(JoinSentences, MaxChunkSentences) : c # <<>>}
    /\ joined = <<>>
    /\ called = FALSE

CallJoin ==
    /\ pc = "call_join"
    /\ ~called
    /\ joined' = joined_sentence_chunk(sentence_chunk)
    /\ called' = TRUE
    /\ UNCHANGED <<pipelineVars, input_list, slice_size, split_result, sentence_chunk>>

NextJoin == CallJoin

SpecJoin == InitJoin /\ [][NextJoin]_vars

\* ------------------------------------------------------------- properties
\* C1: a call split_list(input_list, N) with S = Len(input_list) and N >= 1
\* returns ceil(S / N) chunks; when S > 0 the last chunk has
\* S - N * floor((S - 1) / N) sentences; when S = 0 it returns no chunk.
C1_ChunkCount ==
    called /\ pc = "call_split" =>
        LET S == Len(input_list)
            N == slice_size
        IN /\ Len(split_result) = (S + N - 1) \div N
           /\ (S = 0 => split_result = <<>>)
           /\ (S > 0 => Len(split_result[Len(split_result)]) = S - N * ((S - 1) \div N))

C1_Witness ==
    /\ called
    /\ Len(input_list) = 5
    /\ slice_size = 2
    /\ Len(split_result) = 3
    /\ Len(split_result[3]) = 1

\* C2: the chunks returned by split_list, concatenated in order, are exactly
\* the input list: nothing dropped, duplicated or reordered.
C2_ChunksReconstructList ==
    called /\ pc = "call_split" => JoinAll(split_result) = input_list

C2_Witness ==
    /\ called
    /\ Len(split_result) >= 2
    /\ Len(input_list) >= 3
    /\ input_list[1] # input_list[2]
    /\ input_list[2] # input_list[3]

\* C3: every chunk returned by split_list holds between 1 and N sentences,
\* and every chunk but the last holds exactly N.
C3_ChunkSizes ==
    called /\ pc = "call_split" =>
        \A k \in 1..Len(split_result) :
            /\ Len(split_result[k]) >= 1
            /\ Len(split_result[k]) <= slice_size
            /\ (k < Len(split_result) => Len(split_result[k]) = slice_size)

C3_Witness ==
    /\ called
    /\ slice_size = 3
    /\ Len(input_list) = 4
    /\ Len(split_result) = 2
    /\ Len(split_result[1]) = 3
    /\ Len(split_result[2]) = 1

ChunksBuilt == pc \in {"embed", "batch", "save", "reload", "done"}

\* the texts of the chunk records that name page number n, in record order
RecordTextsOfPage(n) ==
    LET OfPage(r) == r.page_number = n
        recs == SelectSeq(pages_and_chunks, OfPage)
    IN [k \in 1..Len(recs) |-> recs[k].sentence_chunk]

\* C4: once the chunk records are built, each names the page number of an
\* existing page record, and the records naming a page are, in order, the
\* joined texts of that page's own sentence chunks (so no record mixes
\* sentences of two pages and a page without sentences has no record).
C4_ChunksStayInPage ==
    ChunksBuilt =>
        /\ \A i \in 1..Len(pages_and_chunks) :
              \E p \in 1..Len(pages_and_texts) :
                  pages_and_texts[p].page_number = pages_and_chunks[i].page_number
        /\ \A p \in 1..Len(pages_and_texts) :
              LET page == pages_and_texts[p] IN
              /\ page.sentence_chunks = split_list(page.sentences, num_sentences_per_chunk)
              /\ RecordTextsOfPage(page.page_number) =
                    [k \in 1..Len(page.sentence_chunks) |->
                        joined_sentence_chunk(page.sentence_chunks[k])]

C4_Witness ==
    /\ ChunksBuilt
    /\ Len(pages_and_texts) = 2
    /\ pages_and_texts[1].sentences = <<>>
    /\ Len(pages_and_texts[2].sentences) = 2
    /\ num_sentences_per_chunk = 2
    /\ Len(pages_and_chunks) = 1
    /\ pages_and_chunks[1].page_number = 1

NoDoubleSpace(text) ==
    \A i \in 1..(Len(text) - 1) : ~(text[i] = " " /\ text[i + 1] = " ")

Trimmed(text) ==
    text = <<>> \/ (text[1] \notin Whitespace /\ text[Len(text)] \notin Whitespace)

\* C5: the text stored for a chunk has no two consecutive spaces and no
\* leading or trailing whitespace, whatever the sentences contain.
C5_JoinedTextClean ==
    called /\ pc = "call_join" => NoDoubleSpace(joined) /\ Trimmed(joined)

EmbedDone == pc \in {"batch", "save", "reload", "done"}

BatchDone == pc \in {"save", "reload", "done"}

\* C6: after the embedding loop every chunk record carries the embedding of
\* its own text, records with different texts carry different embeddings,
\* and after the batched call the i-th vector is the embedding of the i-th
\* record's text.
C6_EmbeddingsInOrder ==
    /\ EmbedDone =>
          \A i \in 1..Len(pages_and_chunks) :
              /\ "embedding" \in DOMAIN pages_and_chunks[i]
              /\ pages_and_chunks[i].embedding = Encode(pages_and_chunks[i].sentence_chunk)
              /\ \A j \in 1..Len(pages_and_chunks) :
                    pages_and_chunks[i].sentence_chunk # pages_and_chunks[j].sentence_chunk
                    => /\ "embedding" \in DOMAIN pages_and_chunks[j]
                       /\ pages_and_chunks[i].embedding # pages_and_chunks[j].embedding
    /\ BatchDone =>
          /\ Len(text_chunk_embeddings) = Len(pages_and_chunks)
          /\ \A i \in 1..Len(pages_and_chunks) :
                text_chunk_embeddings[i] = Encode(pages_and_chunks[i].sentence_chunk)

C6_Witness ==
    /\ pc = "save"
    /\ Len(pages_and_chunks) >= 2
    /\ pages_and_chunks[1].sentence_chunk # pages_and_chunks[2].sentence_chunk
    /\ text_chunk_embeddings[2] = pages_and_chunks[2].embedding

Saved == pc \in {"reload", "done"}

\* C7: once the file is written it has one row per chunk record, in record
\* order, and every row carries a vector of the model's dimension.
C7_OneRowPerChunk ==
    Saved =>
        /\ file.exists
        /\ Len(file.rows) = Len(pages_and_chunks)
        /\ \A i \in 1..Len(file.rows) :
              /\ file.rows[i][1] = pages_and_chunks[i].page_number
              /\ file.rows[i][2] = pages_and_chunks[i].sentence_chunk
              /\ Len(file.rows[i][6]) = EmbeddingDim

C7_Witness ==
    /\ pc = "done"
    /\ Len(pages_and_chunks) = 3
    /\ Len(file.rows) = 3
    /\ Len(file.rows[3][6]) = EmbeddingDim

BeforeSave == {"load", "segment", "chunk", "join", "embed", "batch"}

C9_OverwriteAndIdempotent ==
    Saved =>
        /\ dirExists
        /\ file.exists
        /\ file.header = Columns
        /\ file.rows = [i \in 1..Len(pages_and_chunks) |-> Row(pages_and_chunks[i])]
        /\ (runs >= 2 => file = prevFile)

C9_Witness ==
    /\ pc = "done"
    /\ runs = 2
    /\ fileAtStart.exists
    /\ Len(fileAtStart.rows) >= 2
    /\ file = prevFile

\* the record new has every field of old with the same value, and the
\* fields it has gained are among added
Extends(old, new, added) ==
    /\ \A f \in DOMAIN old : f \in DOMAIN new /\ new[f] = old[f]
    /\ (DOMAIN new) \ (DOMAIN old) \subseteq added

PageFieldsAddedAt(stage) ==
    CASE stage = "segment" -> {"sentences", "page_sentence_count_spacy"}
      [] stage = "chunk" -> {"sentence_chunks", "num_chunks"}
      [] OTHER -> {}

ChunkFieldsAddedAt(stage) ==
    CASE stage = "embed" -> {"embedding"}
      [] OTHER -> {}

\* C10 as stated: within a run, no step changes an existing page record
\* except that the segmenter adds the sentences field, and no step changes
\* an existing chunk record except that the embedder adds the embedding.
C10_OnlySentencesAdded ==
    [][runs' = runs =>
        /\ Len(pages_and_texts') >= Len(pages_and_texts)
        /\ \A i \in 1..Len(pages_and_texts) :
              Extends(pages_and_texts[i], pages_and_texts'[i],
                      IF pc = "segment" THEN {"sentences"} ELSE {})
        /\ Len(pages_and_chunks') >= Len(pages_and_chunks)
        /\ \A i \in 1..Len(pages_and_chunks) :
              Extends(pages_and_chunks[i], pages_and_chunks'[i], ChunkFieldsAddedAt(pc))
    ]_vars

\* C10 amended: within a run, no step removes a page record or changes a
\* field it already has; the segmenter adds sentences and
\* page_sentence_count_spacy, the chunker adds sentence_chunks and
\* num_chunks, and no other stage adds a field.  No step removes a chunk
\* record or changes a field it already has; the embedder adds embedding
\* and no other stage adds a field.
C10_FieldsOnlyAdded ==
    [][runs' = runs =>
        /\ Len(pages_and_texts') >= Len(pages_and_texts)
        /\ \A i \in 1..Len(pages_and_texts) :
              Extends(pages_and_texts[i], pages_and_texts'[i], PageFieldsAddedAt(pc))
        /\ Len(pages_and_chunks') >= Len(pages_and_chunks)
        /\ \A i \in 1..Len(pages_and_chunks) :
              Extends(pages_and_chunks[i], pages_and_chunks'[i], ChunkFieldsAddedAt(pc))
    ]_vars

C10_Witness ==
    /\ pc = "done"
    /\ Len(pages_and_texts) = 2
    /\ DOMAIN pages_and_texts[2] =
          {"page_number", "page_char_count", "page_word_count",
           "page_sentence_count_raw", "page_token_count", "text",
           "sentences", "page_sentence_count_spacy", "sentence_chunks", "num_chunks"}
    /\ Len(pages_and_chunks) >= 2
    /\ DOMAIN pages_and_chunks[2] =
          {"page_number", "sentence_chunk", "chunk_char_count",
           "chunk_word_count", "chunk_token_count", "embedding"}
    /\ Len(pages_and_chunks[2].sentence_chunk) = 2

====
